---- MODULE Spec2Model ----
(***************************************************************************)
(* Model of hooktest/cli.py: the CustomLogger (verbosity gate, entry       *)
(* filter, colorizer, conditional append) and the table assembly of cli.   *)
(*                                                                         *)
(* A Python str is a sequence of one-character strings; an ANSI escape     *)
(* sequence emitted by click.style and the two glyphs are single tokens.   *)
(* The alphabet of the texts is letters, the space and the newline (no     *)
(* tab, no hyphen), so textwrap's tab expansion and hyphen breaking never  *)
(* apply.  None is the token sequence NONE.                                *)
(***************************************************************************)
EXTENDS Integers, Sequences, FiniteSets, TLC

VARIABLES
    level,      \* self.level, the numeric threshold of the configured verbosity
    op,         \* the operation that acted last / position in cli
    content,    \* filter_logs: the argument
    rendered,   \* filter_logs: [raised, value], the exception flag and the returned list
    haystack,   \* filter_append: the caller's list
    haystack0,  \* filter_append: the caller's list before the first call
    calls,      \* filter_append: the calls made so far, [hay, required]
    string,     \* green_red / checkmark: the argument (a str, or the status glyph)
    status,     \* green_red / checkmark: the status argument
    styled,     \* green_red / checkmark: the returned str
    restyled,   \* green_red: what it returns when given styled again
    text,       \* textwrap.wrap: the argument
    segments,   \* textwrap.wrap: the returned list
    joined,     \* _table_indent.join(segments)
    resplit,    \* joined.split(_table_indent)
    catalog,    \* cli: the --catalog flag
    results,    \* cli: tester.results, in iteration order
    table,      \* cli: the table under construction
    idx,        \* cli: number of results the running loop has consumed
    printed     \* cli: the tables given to click.echo, in order

vars == <<level, op, content, rendered, haystack, haystack0, calls, string, status,
          styled, restyled,
          text, segments, joined, resplit, catalog, results, table, idx, printed>>

---------------------------------------------------------------------------
(* Bounds of the model *)
MaxLogs == 2        \* entries in one filter_logs argument
MaxWords == 1       \* words in the details of a log entry
MaxCalls == 3       \* filter_append calls on one haystack
MaxSegs == 2        \* marker-separated pieces of a green_red argument
MaxWrapWords == 3   \* words in a text given to textwrap.wrap alone
MaxResults == 2     \* entries of tester.results

---------------------------------------------------------------------------
(* Python str helpers *)

NONE == <<"None">>

RECURSIVE Rep(_, _)
Rep(c, n) == IF n <= 0 THEN <<>> ELSE <<c>> \o Rep(c, n - 1)

Last(s) == s[Len(s)]
Front(s) == SubSeq(s, 1, Len(s) - 1)

RECURSIVE Concat(_)
Concat(ss) == IF ss = <<>> THEN <<>> ELSE Head(ss) \o Concat(Tail(ss))

\* sep.join(parts)
RECURSIVE str_join(_, _)
str_join(sep, parts) ==
    IF parts = <<>> THEN <<>>
    ELSE IF Len(parts) = 1 THEN Head(parts)
    ELSE Head(parts) \o sep \o str_join(sep, Tail(parts))

\* s.find(sub) from position i (1-based); 0 when absent
RECURSIVE str_find(_, _, _)
str_find(s, sub, i) ==
    IF i + Len(sub) - 1 > Len(s) THEN 0
    ELSE IF SubSeq(s, i, i + Len(sub) - 1) = sub THEN i
    ELSE str_find(s, sub, i + 1)

\* sub in s
str_in(sub, s) == str_find(s, sub, 1) # 0

\* s.split(sep)
RECURSIVE str_split(_, _)
str_split(s, sep) ==
    LET i == str_find(s, sep, 1)
    IN  IF i = 0 THEN <<s>>
        ELSE <<SubSeq(s, 1, i - 1)>> \o str_split(SubSeq(s, i + Len(sep), Len(s)), sep)

---------------------------------------------------------------------------
(* click.style *)

RED == "ESC[31m"
GREEN == "ESC[32m"
RESET_FG == "ESC[39m"
RESET_ALL == "ESC[0m"
AnsiCodes == {RED, GREEN, RESET_FG, RESET_ALL}

\* click.style(s, fg=...): the colour code, the text, the reset-all code
style(s, fg) == <<fg>> \o s \o <<RESET_ALL>>

\* click.unstyle: the text with every colour code removed
unstyle(s) == SelectSeq(s, LAMBDA t : t \notin AnsiCodes)

---------------------------------------------------------------------------
(* CustomLogger.__init__ *)

Levels == {"minimal", "details", "verbose"}
eq == [minimal |-> 10, details |-> 5, verbose |-> 0]
width == 88
table_indent == <<"\n", " ", " ", " ", " ">>

CHECK == <<"U+2714">>
CROSS == <<"U+2717">>

---------------------------------------------------------------------------
(* textwrap.wrap(text, width=88), with the defaults: expand_tabs,           *)
(* replace_whitespace, drop_whitespace, break_long_words                    *)

IsWs(c) == c \in {" ", "\n"}

\* TextWrapper._munge_whitespace: every whitespace character becomes a space
munge_whitespace(t) == [i \in 1..Len(t) |-> IF IsWs(t[i]) THEN " " ELSE t[i]]

RECURSIVE RunEnd(_, _)
RunEnd(t, i) ==
    IF i < Len(t) /\ (t[i + 1] = " ") = (t[i] = " ") THEN RunEnd(t, i + 1) ELSE i

\* TextWrapper._split: the maximal runs of whitespace and of non-whitespace
RECURSIVE split_chunks(_, _)
split_chunks(t, i) ==
    IF i > Len(t) THEN <<>>
    ELSE LET j == RunEnd(t, i)
         IN  <<SubSeq(t, i, j)>> \o split_chunks(t, j + 1)

\* chunk.strip() == ''
IsBlank(chunk) == \A i \in 1..Len(chunk) : chunk[i] = " "

\* the inner while loop of _wrap_chunks: chunks are taken while they fit
RECURSIVE fill_line(_, _, _)
fill_line(chunks, cur_line, cur_len) ==
    IF chunks # <<>> /\ cur_len + Len(Head(chunks)) <= width
    THEN fill_line(Tail(chunks), Append(cur_line, Head(chunks)),
                   cur_len + Len(Head(chunks)))
    ELSE [cur_line |-> cur_line, cur_len |-> cur_len, chunks |-> chunks]

\* TextWrapper._handle_long_word with break_long_words
handle_long_word(chunks, cur_line, cur_len) ==
    LET space_left == IF width < 1 THEN 1 ELSE width - cur_len
        chunk == Head(chunks)
    IN  [cur_line |-> Append(cur_line, SubSeq(chunk, 1, space_left)),
         chunks |-> <<SubSeq(chunk, space_left + 1, Len(chunk))>> \o Tail(chunks)]

\* TextWrapper._wrap_chunks: the outer while loop
RECURSIVE wrap_chunks(_, _)
wrap_chunks(chunks, lines) ==
    IF chunks = <<>> THEN lines
    ELSE LET c0 == IF IsBlank(Head(chunks)) /\ lines # <<>>
                   THEN Tail(chunks) ELSE chunks
             f  == fill_line(c0, <<>>, 0)
             h  == IF f.chunks # <<>> /\ Len(Head(f.chunks)) > width
                   THEN handle_long_word(f.chunks, f.cur_line, f.cur_len)
                   ELSE [cur_line |-> f.cur_line, chunks |-> f.chunks]
             cl == IF h.cur_line # <<>> /\ IsBlank(Last(h.cur_line))
                   THEN Front(h.cur_line) ELSE h.cur_line
         IN  wrap_chunks(h.chunks,
                         IF cl # <<>> THEN Append(lines, Concat(cl)) ELSE lines)

\* wrap with replace_whitespace off: a newline of the text stays in its line
wrap_keep_whitespace(t) == wrap_chunks(split_chunks(t, 1), <<>>)

wrap(t) == wrap_chunks(split_chunks(munge_whitespace(t), 1), <<>>)

---------------------------------------------------------------------------
(* CustomLogger *)

\* green_red showing green at verbose only
green_red_verbose_only(s, st) ==
    IF ~st
    THEN IF str_in(table_indent, s)
         THEN LET parts == str_split(s, table_indent)
              IN  str_join(style(<<" ">>, RESET_FG) \o table_indent,
                           [i \in 1..Len(parts) |-> style(parts[i], RED)])
         ELSE style(s, RED)
    ELSE IF level <= 0 THEN style(s, GREEN)
    ELSE s

\* green_red ending every piece with the uncolored space and the indent
green_red_terminated(s, st) ==
    IF ~st
    THEN LET parts == str_split(s, table_indent)
         IN  Concat([i \in 1..Len(parts) |->
                        style(parts[i], RED) \o style(<<" ">>, RESET_FG)
                        \o table_indent])
    ELSE IF level <= 5 THEN style(s, GREEN)
    ELSE s

\* CustomLogger.green_red(string, status); self.level is the variable level
green_red(s, st) ==
    IF ~st
    THEN IF str_in(table_indent, s)
         THEN LET parts == str_split(s, table_indent)
              IN  str_join(style(<<" ">>, RESET_FG) \o table_indent,
                           [i \in 1..Len(parts) |-> style(parts[i], RED)])
         ELSE style(s, RED)
    ELSE IF level <= 5 THEN style(s, GREEN)
    ELSE s

\* CustomLogger.checkmark(status)
checkmark(st) == IF st THEN green_red(CHECK, st) ELSE green_red(CROSS, st)

\* f"{log.name}: "
label(log) == log.name \o <<":", " ">>

\* truth value of log.details: None and "" are false
truthy(d) == d # NONE /\ d # <<>>

\* the condition of the comprehension of filter_logs
selected(log) == log.status = FALSE \/ level <= 0

\* the element expression of the comprehension of filter_logs
render(log) ==
    IF log.status
    THEN label(log) \o green_red(IF truthy(log.details) THEN log.details ELSE CHECK,
                                 log.status)
    ELSE label(log) \o green_red(str_join(table_indent, wrap(log.details)),
                                 log.status)

\* textwrap.wrap(None) raises AttributeError (None has no expandtabs)
render_raises(log) == ~log.status /\ log.details = NONE

\* CustomLogger.filter_logs(content): the returned list, or the exception
filter_logs(c) ==
    LET sel == SelectSeq(c, selected)
    IN  IF \E i \in 1..Len(sel) : render_raises(sel[i])
        THEN [raised |-> TRUE, value |-> <<>>]
        ELSE [raised |-> FALSE, value |-> [i \in 1..Len(sel) |-> render(sel[i])]]

\* the comparison of the gate the other way round
gate_reversed(required) == level >= eq[required]

\* the condition of CustomLogger.filter_append (and of _print)
gate(required) == eq[required] >= level

\* filter_append inserting at the front of the list
filter_append_front(h, hay, required) == IF eq[required] >= level THEN <<hay>> \o h ELSE h

\* CustomLogger.filter_append(haystack, hay, level): the list afterwards
filter_append(h, hay, required) == IF gate(required) THEN Append(h, hay) ELSE h

---------------------------------------------------------------------------
(* Inputs *)

RECURSIVE SeqsUpTo(_, _)
SeqsUpTo(S, n) ==
    IF n = 0 THEN {<<>>}
    ELSE LET shorter == SeqsUpTo(S, n - 1)
         IN  shorter \cup {Append(s, x) : s \in {t \in shorter : Len(t) = n - 1}, x \in S}

\* a word shorter than half a line, and one that fills more than a line
WordLens == {40, 89}
Words == {Rep("a", n) : n \in WordLens}

\* the texts of 1..n words separated by single spaces
TextsOf(n) == {str_join(<<" ">>, ws) : ws \in SeqsUpTo(Words, n) \ {<<>>}}

Names == {<<"n">>}
DetailsValues == {NONE, <<>>} \cup TextsOf(MaxWords)
Logs == [name : Names, status : BOOLEAN, details : DetailsValues]
Contents == SeqsUpTo(Logs, MaxLogs)

NoResult == [raised |-> FALSE, value |-> <<>>]

---------------------------------------------------------------------------
(* filter_logs: a logger of any verbosity is given any list of entries *)

InitLogs ==
    /\ \E v \in Levels : level = eq[v]
    /\ op = "init"
    /\ content \in Contents
    /\ rendered = NoResult
    /\ haystack = <<>> /\ haystack0 = <<>> /\ calls = <<>>
    /\ string = <<>> /\ status = FALSE /\ styled = <<>> /\ restyled = <<>>
    /\ text = <<>> /\ segments = <<>> /\ joined = <<>> /\ resplit = <<>>
    /\ catalog = FALSE /\ results = <<>> /\ table = <<>> /\ idx = 0 /\ printed = <<>>

FilterLogs ==
    /\ op = "init"
    /\ op' = "filter_logs"
    /\ rendered' = filter_logs(content)
    /\ UNCHANGED <<level, content, haystack, haystack0, calls, string, status, styled,
                   restyled, text,
                   segments, joined, resplit, catalog, results, table, idx, printed>>

NextLogs == FilterLogs

SpecLogs == InitLogs /\ [][NextLogs]_vars

(* Properties of filter_logs *)

Failing(c) == {i \in 1..Len(c) : ~c[i].status}
Passing(c) == {i \in 1..Len(c) : c[i].status}

\* the entries of the argument that the written selection rule lets through
Included == SelectSeq(content, LAMBDA log : ~log.status \/ level <= eq.verbose)

\* C1: at every level and for every list of entries, filter_logs returns a
\* list holding one rendered line for each entry whose status is false.
C1_FailuresAlwaysRendered ==
    op = "filter_logs" =>
        /\ ~rendered.raised
        /\ Len(rendered.value) >= Cardinality(Failing(content))

\* C2: an entry whose status is true is in the output iff the level is
\* details or verbose; stated on the outputs filter_logs returns: the output
\* holds the failing entries, and the passing ones exactly at those levels.
C2_SuccessShownAtDetailsAndVerbose ==
    (op = "filter_logs" /\ ~rendered.raised) =>
        Len(rendered.value) =
            Cardinality(Failing(content))
            + (IF level \in {eq.details, eq.verbose}
               THEN Cardinality(Passing(content)) ELSE 0)

\* C6: an included entry whose details is None or "" raises no error and is
\* rendered as "{name}: " followed by the colorized glyph of its status.
C6_MissingDetailsRenderGlyph ==
    op = "filter_logs" =>
        \A k \in 1..Len(Included) :
            Included[k].details \in {NONE, <<>>} =>
                /\ ~rendered.raised
                /\ k <= Len(rendered.value)
                /\ rendered.value[k] =
                       label(Included[k])
                       \o (IF Included[k].status THEN style(CHECK, GREEN)
                           ELSE style(CROSS, RED))

\* C7: an included entry whose details is non-empty is rendered, whatever its
\* status, as "{name}: " followed by the colorized join of the segments of at
\* most 88 characters of its wrapped details.
C7_DetailsAlwaysWrapped ==
    (op = "filter_logs" /\ ~rendered.raised) =>
        \A k \in 1..Len(Included) :
            truthy(Included[k].details) =>
                /\ k <= Len(rendered.value)
                /\ \A i \in 1..Len(wrap(Included[k].details)) :
                       Len(wrap(Included[k].details)[i]) <= width
                /\ rendered.value[k] =
                       label(Included[k])
                       \o green_red(str_join(table_indent, wrap(Included[k].details)),
                                    Included[k].status)

---------------------------------------------------------------------------
(* filter_append: a logger of any verbosity is called repeatedly on one list *)

Hays == {"row1", "row2"}
Haystacks == {<<>>, <<"header">>}

InitAppend ==
    /\ \E v \in Levels : level = eq[v]
    /\ op = "init"
    /\ haystack0 \in Haystacks
    /\ haystack = haystack0
    /\ calls = <<>>
    /\ content = <<>> /\ rendered = NoResult
    /\ string = <<>> /\ status = FALSE /\ styled = <<>> /\ restyled = <<>>
    /\ text = <<>> /\ segments = <<>> /\ joined = <<>> /\ resplit = <<>>
    /\ catalog = FALSE /\ results = <<>> /\ table = <<>> /\ idx = 0 /\ printed = <<>>

FilterAppend ==
    /\ Len(calls) < MaxCalls
    /\ \E hay \in Hays, required \in Levels :
        /\ haystack' = filter_append(haystack, hay, required)
        /\ calls' = Append(calls, [hay |-> hay, required |-> required])
    /\ op' = "filter_append"
    /\ UNCHANGED <<level, content, rendered, haystack0, string, status, styled,
                   restyled, text,
                   segments, joined, resplit, catalog, results, table, idx, printed>>

NextAppend == FilterAppend

SpecAppend == InitAppend /\ [][NextAppend]_vars

(* Properties of filter_append *)

\* the verbosity name the logger was constructed with
Configured == CHOOSE v \in Levels : eq[v] = level

\* C3 as stated: a call appends hay iff the configured level's threshold is
\* greater than or equal to the required level's threshold.
C3_AppendIffConfiguredGeRequired ==
    [][op' = "filter_append" =>
        LET c == calls'[Len(calls')]
        IN  (haystack' = Append(haystack, c.hay))
                <=> (eq[Configured] >= eq[c.required])]_vars

\* C3 amended: a call appends hay iff the required level's threshold is
\* greater than or equal to the configured level's threshold (minimal=10,
\* details=5, verbose=0); otherwise the list is left as it was.
C3_AppendIffRequiredGeConfigured ==
    [][op' = "filter_append" =>
        LET c == calls'[Len(calls')]
        IN  /\ (haystack' = Append(haystack, c.hay))
                   <=> (eq[c.required] >= eq[Configured])
            /\ (haystack' = haystack)
                   <=> (eq[c.required] < eq[Configured])]_vars

\* a logger at details has appended a row required at minimal and has
\* rejected a row required at verbose
C3_Witness ==
    /\ op = "filter_append" /\ level = eq.details
    /\ Len(calls) = 2
    /\ calls[1].required = "minimal" /\ calls[2].required = "verbose"
    /\ haystack = Append(haystack0, calls[1].hay)

\* the items of the calls that passed the level gate, in call order
RECURSIVE Passed(_)
Passed(cs) ==
    IF cs = <<>> THEN <<>>
    ELSE IF eq[Head(cs).required] >= level
         THEN <<Head(cs).hay>> \o Passed(Tail(cs))
         ELSE Passed(Tail(cs))

\* C4: after any sequence of filter_append calls the list is its initial
\* content followed, in call order, by exactly the items of the calls that
\* passed the gate; nothing already present is removed, replaced or moved.
C4_HaystackIsInitialPlusPassed == haystack = haystack0 \o Passed(calls)

\* C4: each call grows the list by 0 or 1 and keeps what was there as a prefix
C4_Witness ==
    /\ op = "filter_append" /\ Len(calls) = 3
    /\ haystack0 # <<>>
    /\ Len(haystack) = Len(haystack0) + 2
    /\ haystack[Len(haystack)] # haystack[Len(haystack) - 1]

---------------------------------------------------------------------------
(* green_red and checkmark: a logger of any verbosity colorizes a string,   *)
(* colorizes the result once more, or renders a status glyph                *)

Pieces == {<<>>, <<"a">>, <<"b", "c">>}

\* single-line strings, and strings whose pieces the indent marker separates
ColorInputs == {str_join(table_indent, ps) : ps \in SeqsUpTo(Pieces, MaxSegs) \ {<<>>}}

InitColor ==
    /\ \E v \in Levels : level = eq[v]
    /\ op = "init"
    /\ string \in ColorInputs
    /\ status \in BOOLEAN
    /\ styled = <<>> /\ restyled = <<>>
    /\ content = <<>> /\ rendered = NoResult
    /\ haystack = <<>> /\ haystack0 = <<>> /\ calls = <<>>
    /\ text = <<>> /\ segments = <<>> /\ joined = <<>> /\ resplit = <<>>
    /\ catalog = FALSE /\ results = <<>> /\ table = <<>> /\ idx = 0 /\ printed = <<>>

GreenRed ==
    /\ op = "init"
    /\ op' = "green_red"
    /\ styled' = green_red(string, status)
    /\ UNCHANGED <<restyled, level, content, rendered, haystack, haystack0, calls, string,
                   status, text, segments, joined, resplit, catalog, results, table,
                   idx, printed>>

\* the returned string is given to green_red again, with the same status
GreenRedAgain ==
    /\ op = "green_red"
    /\ op' = "green_red_again"
    /\ restyled' = green_red(styled, status)
    /\ UNCHANGED <<level, content, rendered, haystack, haystack0, calls, string, status,
                   styled, text,
                   segments, joined, resplit, catalog, results, table, idx, printed>>

Checkmark ==
    /\ op = "init"
    /\ op' = "checkmark"
    /\ styled' = checkmark(status)
    /\ UNCHANGED <<restyled, level, content, rendered, haystack, haystack0, calls, string,
                   status, text, segments, joined, resplit, catalog, results, table,
                   idx, printed>>

NextColor == GreenRed \/ GreenRedAgain \/ Checkmark

SpecColor == InitColor /\ [][NextColor]_vars

(* Properties of checkmark and green_red *)

\* C5 as stated: at every level checkmark returns a colorized glyph, the
\* success glyph in green for true and the failure glyph in red for false.
C5_CheckmarkAlwaysColorized ==
    op = "checkmark" =>
        styled = (IF status THEN <<GREEN>> \o CHECK \o <<RESET_ALL>>
                  ELSE <<RED>> \o CROSS \o <<RESET_ALL>>)

\* C5 amended: checkmark returns the failure glyph in red for false at every
\* level; for true it returns the success glyph in green at details and
\* verbose, and the bare, uncolored success glyph at minimal.
C5_CheckmarkGreenOnlyBelowMinimal ==
    op = "checkmark" =>
        styled = (IF ~status THEN <<RED>> \o CROSS \o <<RESET_ALL>>
                  ELSE IF Configured \in {"details", "verbose"}
                       THEN <<GREEN>> \o CHECK \o <<RESET_ALL>>
                       ELSE CHECK)

\* checkmark(True) at minimal has returned the glyph without a colour code
C5_Witness ==
    /\ op = "checkmark" /\ status /\ level = eq.minimal
    /\ styled = CHECK

\* C8 as stated: for single-line and multi-line s, colorizing a failure
\* string twice gives, colour codes stripped, what colorizing it once gives.
C8_FailureColorIdempotent ==
    (op = "green_red_again" /\ ~status) => unstyle(restyled) = unstyle(styled)

\* C8 amended: for every string s that does not contain the indent marker
\* (newline + 4 spaces), green_red(green_red(s, False), False) stripped of
\* colour codes equals green_red(s, False) stripped of colour codes.
C8_SingleLineFailureColorIdempotent ==
    (op = "green_red_again" /\ ~status /\ ~str_in(table_indent, string)) =>
        unstyle(restyled) = unstyle(styled)

\* a non-empty single-line failure string has been colorized twice
C8_Witness ==
    /\ op = "green_red_again" /\ ~status
    /\ ~str_in(table_indent, string)
    /\ Len(string) = 2
    /\ Len(styled) = 4 /\ Len(restyled) = 6

---------------------------------------------------------------------------
(* The wrap, join and split steps on their own: the segments of a text are  *)
(* joined with the indent marker (filter_logs) and the joined string is     *)
(* split on the marker (green_red)                                          *)

WrapWordLens == {1, 44, 89}
WrapWords == {Rep("a", n) : n \in WrapWordLens}

WrapTexts ==
    {str_join(<<" ">>, ws) : ws \in SeqsUpTo(WrapWords, MaxWrapWords) \ {<<>>}}
    \cup {<<>>, <<" ", "\n", " ">>,
          <<"a">> \o table_indent \o <<"b">>,
          <<" ", " ">> \o Rep("a", 89) \o <<"\n">>}

InitWrap ==
    /\ \E v \in Levels : level = eq[v]
    /\ op = "init"
    /\ text \in WrapTexts
    /\ segments = <<>> /\ joined = <<>> /\ resplit = <<>>
    /\ content = <<>> /\ rendered = NoResult
    /\ haystack = <<>> /\ haystack0 = <<>> /\ calls = <<>>
    /\ string = <<>> /\ status = FALSE /\ styled = <<>> /\ restyled = <<>>
    /\ catalog = FALSE /\ results = <<>> /\ table = <<>> /\ idx = 0 /\ printed = <<>>

Wrap ==
    /\ op = "init"
    /\ op' = "wrap"
    /\ segments' = wrap(text)
    /\ UNCHANGED <<level, content, rendered, haystack, haystack0, calls, string,
                   status, styled, restyled,
                   text, joined, resplit, catalog, results, table,
                   idx, printed>>

Join ==
    /\ op = "wrap"
    /\ op' = "join"
    /\ joined' = str_join(table_indent, segments)
    /\ UNCHANGED <<level, content, rendered, haystack, haystack0, calls, string,
                   status, styled, restyled,
                   text, segments, resplit, catalog, results, table,
                   idx, printed>>

Split ==
    /\ op = "join"
    /\ op' = "split"
    /\ resplit' = str_split(joined, table_indent)
    /\ UNCHANGED <<level, content, rendered, haystack, haystack0, calls, string,
                   status, styled, restyled,
                   text, segments, joined, catalog, results, table,
                   idx, printed>>

NextWrap == Wrap \/ Join \/ Split

SpecWrap == InitWrap /\ [][NextWrap]_vars

(* Properties of the round trip *)

\* C9 as stated: the wrapped segments joined with the indent marker and
\* split on it are the wrapped segments again, also when there is none.
C9_WrapJoinSplitRoundTrip == op = "split" => resplit = segments

\* C9 amended: for every details text whose wrapping yields at least one
\* segment, joining the segments with the indent marker and splitting on it
\* gives the same segments in the same order; when wrapping yields no
\* segment (empty or all-whitespace text) the split gives one empty string.
C9_RoundTripOfNonEmptyWrap ==
    op = "split" =>
        /\ segments # <<>> => resplit = segments
        /\ segments = <<>> => resplit = <<<<>>>>

\* a text has been wrapped into several segments, joined and split again
C9_Witness ==
    /\ op = "split"
    /\ Len(segments) >= 3
    /\ Len(joined) > 2 * width
    /\ Len(resplit) = Len(segments)

---------------------------------------------------------------------------
(* cli: the catalog table and the TEI table.  The metadata table (built     *)
(* with plain list.append from tester.catalog) is left out.                 *)

\* the keys of tester.results, in insertion order; the second is absolute
FileNames == <<<<"f1">>, <<"/cwd", "f2">>, <<"f3">>>>

\* os.path.relpath(path): a path under the working directory loses the prefix
relpath(path) == IF Head(path) = "/cwd" THEN Tail(path) ELSE path

PassLog == [name |-> <<"n">>, status |-> TRUE, details |-> NONE]
FailLog == [name |-> <<"n">>, status |-> FALSE, details |-> <<"a", " ", "b">>]
BareFailLog == [name |-> <<"n">>, status |-> FALSE, details |-> NONE]
StatusLists == {<<PassLog>>, <<PassLog, FailLog>>, <<BareFailLog>>}

\* a result of the Tester: its status, its log entries, and whether its file
\* is one of tester.tests()
Outcomes == [status : BOOLEAN, statuses : StatusLists, tei : BOOLEAN]

ResultLists ==
    {[i \in 1..Len(os) |-> [file |-> FileNames[i], status |-> os[i].status,
                            statuses |-> os[i].statuses, tei |-> os[i].tei]] :
        os \in SeqsUpTo(Outcomes, MaxResults)}

\* tester.tests(): the results of the TEI files, in order
tests == SelectSeq(results, LAMBDA r : r.tei)

Header == <<<<"File">>, <<"Status">>, <<"Tests">>>>

\* the hay of one filter_append call of cli
row(file, result) ==
    <<file, checkmark(result.status),
      str_join(<<"\n">>, filter_logs(result.statuses).value)>>

InitCli ==
    /\ \E v \in Levels : level = eq[v]
    /\ op = "init"
    /\ catalog \in BOOLEAN
    /\ results \in ResultLists
    /\ table = <<>> /\ idx = 0 /\ printed = <<>>
    /\ content = <<>> /\ rendered = NoResult
    /\ haystack = <<>> /\ haystack0 = <<>> /\ calls = <<>>
    /\ string = <<>> /\ status = FALSE /\ styled = <<>> /\ restyled = <<>>
    /\ text = <<>> /\ segments = <<>> /\ joined = <<>> /\ resplit = <<>>

\* lines 85-102 and 134-135: the first table is started
CliStart ==
    /\ op = "init"
    /\ op' = IF catalog THEN "catalog" ELSE "tei"
    /\ table' = <<Header>>
    /\ idx' = 0
    /\ UNCHANGED <<level, content, rendered, haystack, haystack0, calls, string,
                   status, styled, restyled,
                   text, segments, joined, resplit, catalog, results,
                   printed>>

\* lines 103-112: one iteration over tester.results.items()
CatalogRow ==
    /\ op = "catalog" /\ idx < Len(results)
    /\ LET result == results[idx + 1]
       IN  IF filter_logs(result.statuses).raised
           THEN op' = "raised" /\ UNCHANGED <<table, idx>>
           ELSE /\ table' = filter_append(table, row(result.file, result), "minimal")
                /\ idx' = idx + 1
                /\ UNCHANGED op
    /\ UNCHANGED <<level, content, rendered, haystack, haystack0, calls, string,
                   status, styled, restyled,
                   text, segments, joined, resplit, catalog, results,
                   printed>>

\* lines 113 and 134-135: the catalog table is printed, the TEI table started
CatalogEcho ==
    /\ op = "catalog" /\ idx = Len(results)
    /\ printed' = Append(printed, table)
    /\ table' = <<Header>>
    /\ idx' = 0
    /\ op' = "tei"
    /\ UNCHANGED <<level, content, rendered, haystack, haystack0, calls, string,
                   status, styled, restyled,
                   text, segments, joined, resplit, catalog, results>>

\* lines 136-146: one iteration over tester.tests()
TeiRow ==
    /\ op = "tei" /\ idx < Len(tests)
    /\ LET result == tests[idx + 1]
       IN  IF filter_logs(result.statuses).raised
           THEN op' = "raised" /\ UNCHANGED <<table, idx>>
           ELSE /\ table' = filter_append(table, row(relpath(result.file), result),
                                          "minimal")
                /\ idx' = idx + 1
                /\ UNCHANGED op
    /\ UNCHANGED <<level, content, rendered, haystack, haystack0, calls, string,
                   status, styled, restyled,
                   text, segments, joined, resplit, catalog, results,
                   printed>>

\* lines 147-148: the TEI table is printed and cli returns
TeiEcho ==
    /\ op = "tei" /\ idx = Len(tests)
    /\ printed' = Append(printed, table)
    /\ op' = "done"
    /\ UNCHANGED <<level, content, rendered, haystack, haystack0, calls, string,
                   status, styled, restyled,
                   text, segments, joined, resplit, catalog, results,
                   table, idx>>

NextCli == CliStart \/ CatalogRow \/ CatalogEcho \/ TeiRow \/ TeiEcho

SpecCli == InitCli /\ [][NextCli]_vars

(* Properties of cli *)

\* the table holds the header and one row per entry of rs, in order
ListsAll(t, rs, catalogTable) ==
    /\ Len(t) = 1 + Len(rs)
    /\ t[1] = Header
    /\ \A i \in 1..Len(rs) :
        t[i + 1][1] = (IF catalogTable THEN rs[i].file ELSE relpath(rs[i].file))

\* C10: at every verbosity, when cli has ended it has printed each of its
\* report tables, and each holds the header row plus exactly one row per
\* result, in the iteration order of the results.
C10_TablesListEveryResult ==
    op \in {"done", "raised"} =>
        /\ Len(printed) = (IF catalog THEN 2 ELSE 1)
        /\ catalog => ListsAll(printed[1], results, TRUE)
        /\ ListsAll(printed[Len(printed)], tests, FALSE)

====
